---- MODULE Spec2Model ----
(***************************************************************************)
(* Model of the background-removal resilience pipeline:                    *)
(*   app/service/processing/factory.py   (ModelFactory: instance cache,    *)
(*                                        health records, fallback walk)   *)
(*   app/service/processing/pipeline.py  (BackgroundRemovalPipeline:       *)
(*                                        process, retry loop, batches)    *)
(*   app/service/processing/base.py      (result and health records)       *)
(*   app/service/processing/config.py    (PipelineConfig)                  *)
(*                                                                         *)
(* The pipeline runs on one asyncio event loop: code between two awaits is *)
(* one atomic action.  The awaits are asyncio.gather (process_batch),      *)
(* asyncio.wait_for around the backend call and asyncio.sleep between      *)
(* retries (_process_with_retry).  ModelFactory has no await at all, so    *)
(* each of its methods is atomic.                                          *)
(***************************************************************************)
EXTENDS Integers, Sequences, FiniteSets, TLC

(***************************************************************************)
(* Bounds of the model.                                                    *)
(***************************************************************************)
\* images in one process_batch call
MaxImages == 3
\* outcomes recorded in the metrics before new calls stop being issued
MaxProcessed == 3
\* largest batch_size of the configurations of the batch specification
MaxBatchSize == 2

(***************************************************************************)
(* base.py: the enumerations.                                              *)
(***************************************************************************)
U2NET == "u2net"
RMBG2_LOCAL == "rmbg-2.0-local"
RMBG2_API == "rmbg-2.0-api"
ModelType == {U2NET, RMBG2_LOCAL, RMBG2_API}

\* Optional[...] = None
NONE == "None"

SUCCESS == "success"
FAILED == "failed"
ProcessingStatus == {"pending", "processing", SUCCESS, FAILED, "partial"}

HEALTHY == "healthy"
DEGRADED == "degraded"
UNHEALTHY == "unhealthy"
UNKNOWN == "unknown"

\* timedelta(minutes=5) of check_health, in minutes
HealthTTL == 5

(***************************************************************************)
(* config.py: PipelineConfig.  A configuration is a record                 *)
(*   default_model, fallback_enabled, fallback_chain, batch_size,          *)
(*   max_retries, collect_metrics, timeout, retry_delay,                   *)
(*   enable_preprocessing, enable_postprocessing.                          *)
(* timeout is in seconds, retry_delay in tenths of a second.               *)
(* default_model and the entries of fallback_chain are plain strings (str  *)
(* and List[str] fields without a validator), so a string that names no    *)
(* backend is a value the class accepts.                                   *)
(***************************************************************************)
\* Field(default=2, ge=0, le=5)
MaxRetriesLe == 5
MaxRetriesGe == 0
\* Field(default=10, ge=1, le=100)
BatchSizeGe == 1
BatchSizeLe == 100
\* timeout: Field(default=30.0, ge=1.0, le=300.0)
TimeoutDefault == 30
TimeoutGe == 1
TimeoutLe == 300
\* retry_delay: Field(default=1.0, ge=0.1, le=10.0), in tenths of a second
RetryDelayDefault == 10
RetryDelayGe == 1
RetryDelayLe == 100

DefaultFallbackChain == <<RMBG2_LOCAL, RMBG2_API, U2NET>>

\* a name that is no member of ModelType
BOGUS == "bogus"

Config(dm, fe, fc, bs, mr, cm) ==
    [default_model |-> dm, fallback_enabled |-> fe, fallback_chain |-> fc,
     batch_size |-> bs, max_retries |-> mr, collect_metrics |-> cm,
     timeout |-> TimeoutDefault, retry_delay |-> RetryDelayDefault,
     enable_preprocessing |-> TRUE, enable_postprocessing |-> TRUE]

\* PipelineConfig(**fields) returns an object (TRUE) or raises ValidationError
\* (FALSE): the ge/le constraints of the numeric fields are all that is checked;
\* default_model is any str, fallback_chain any list of str
PipelineConfig(c) ==
    /\ BatchSizeGe <= c.batch_size /\ c.batch_size <= BatchSizeLe
    /\ TimeoutGe <= c.timeout /\ c.timeout <= TimeoutLe
    /\ MaxRetriesGe <= c.max_retries /\ c.max_retries <= MaxRetriesLe
    /\ RetryDelayGe <= c.retry_delay /\ c.retry_delay <= RetryDelayLe

(***************************************************************************)
(* State.                                                                  *)
(***************************************************************************)
VARIABLES
    cfg,        \* self.config of the pipeline and its factory
    instances,  \* ModelFactory._instances: type -> instance id, 0 = no instance
    health,     \* ModelFactory._health_status: type -> record, status "absent" = no key
    ran,        \* per type, runs of _create_model during the current top-level call
    metrics,    \* BackgroundRemovalPipeline._metrics (the three counters)
    task,       \* one process() coroutine per image slot
    call,       \* the top-level call in progress and its local variables
    last,       \* the last completed ModelFactory call: operation, argument, result
    made        \* per type, the factory whose _create_model built the cached
                \* instance (its config gave device and model_path), 0 = none

vars == <<cfg, instances, health, ran, metrics, task, call, last, made>>

(***************************************************************************)
(* base.py: ModelHealth.  last_check is set to datetime.now() when the     *)
(* record is built (__post_init__); the model keeps the record's age       *)
(* datetime.now() - last_check in minutes, which is all check_health reads *)
(* of it.  Ages of HealthTTL or more are not told apart.                   *)
(***************************************************************************)
ModelHealth(status, message) == [status |-> status, message |-> message, age |-> 0]

NoHealth == [status |-> "absent", message |-> "", age |-> 0]

is_healthy(h) == h.status = HEALTHY

\* a model adapter: its class (one per ModelType) and its identity
Adapter(T, id) == [type |-> T, id |-> id]

NoModel == [type |-> NONE, id |-> 0]

ZeroRan == [T \in ModelType |-> 0]


(***************************************************************************)
(* factory.py: check_health.                                               *)
(***************************************************************************)
\* hasattr(model, 'remove_background'): every adapter class of models.py defines it
HasRemoveBackground(T) == T \in ModelType

\* datetime.now() - health.last_check < timedelta(minutes=5)
IsRecent(h) == h.age < HealthTTL

\* a stale record is answered with Unknown without looking at the cache
check_health_unprobed(R, T) ==
    IF R.health[T].status # "absent" /\ IsRecent(R.health[T])
    THEN [reg |-> R, ret |-> R.health[T]]
    ELSE [reg |-> R, ret |-> ModelHealth(UNKNOWN, "Model not initialized")]

\* the stored record is returned whatever its age
check_health_expired(R, T) ==
    IF R.health[T].status # "absent"
    THEN [reg |-> R, ret |-> R.health[T]]
    ELSE IF R.instances[T] = 0
    THEN [reg |-> R, ret |-> ModelHealth(UNKNOWN, "Model not initialized")]
    ELSE [reg |-> [R EXCEPT !.health[T] = ModelHealth(HEALTHY, "Model is responsive")],
          ret |-> ModelHealth(HEALTHY, "Model is responsive")]

check_health(R, T) ==
    IF R.health[T].status # "absent" /\ IsRecent(R.health[T])
    THEN [reg |-> R, ret |-> R.health[T]]
    ELSE IF R.instances[T] = 0
    THEN [reg |-> R, ret |-> ModelHealth(UNKNOWN, "Model not initialized")]
    ELSE LET h == IF HasRemoveBackground(T)
                  THEN ModelHealth(HEALTHY, "Model is responsive")
                  ELSE ModelHealth(UNHEALTHY, "Model is missing required methods")
         IN [reg |-> [R EXCEPT !.health[T] = h], ret |-> h]

(***************************************************************************)
(* factory.py: get_model and _create_model.  ok[T] says whether the        *)
(* constructor of T's adapter returns (TRUE) or raises (FALSE) when it is  *)
(* run in this step.  A new adapter object is an object other than every   *)
(* adapter still referenced: R.fresh[T] is such an identity.               *)
(***************************************************************************)
\* the except branch of get_model returns None without recording the failure
create_model_unrecorded(R, T, ok) ==
    LET R1 == [R EXCEPT !.ran[T] = @ + 1]
    IN IF ok[T]
       THEN [reg |-> [R1 EXCEPT !.instances[T] = R.fresh[T],
                                !.health[T] = ModelHealth(HEALTHY, "Model initialized successfully")],
             ret |-> Adapter(T, R.fresh[T])]
       ELSE [reg |-> R1, ret |-> NoModel]

\* a successful construction is cached without a health record
create_model_no_health(R, T, ok) ==
    LET R1 == [R EXCEPT !.ran[T] = @ + 1]
    IN IF ok[T]
       THEN [reg |-> [R1 EXCEPT !.instances[T] = R.fresh[T]],
             ret |-> Adapter(T, R.fresh[T])]
       ELSE [reg |-> [R1 EXCEPT !.health[T] = ModelHealth(UNHEALTHY, "constructor raised")],
             ret |-> NoModel]

create_model(R, T, ok) ==
    LET R1 == [R EXCEPT !.ran[T] = @ + 1]
    IN IF ok[T]
       THEN [reg |-> [R1 EXCEPT !.instances[T] = R.fresh[T],
                                !.health[T] = ModelHealth(HEALTHY, "Model initialized successfully")],
             ret |-> Adapter(T, R.fresh[T])]
       ELSE [reg |-> [R1 EXCEPT !.health[T] = ModelHealth(UNHEALTHY, "constructor raised")],
             ret |-> NoModel]

\* the cache is not consulted: every call constructs
get_model_recreates(R, T, ok) == create_model(R, T, ok)

get_model(R, T, ok) ==
    IF R.instances[T] # 0
    THEN LET c == check_health(R, T)
         IN IF is_healthy(c.ret)
            THEN [reg |-> c.reg, ret |-> Adapter(T, R.instances[T])]
            ELSE create_model([c.reg EXCEPT !.instances[T] = 0], T, ok)
    ELSE create_model(R, T, ok)

\* ModelType(s): s names a member of the enumeration (else ValueError)
IsModelType(s) == s \in ModelType

get_default_model(R, c, ok) ==
    IF IsModelType(c.default_model)
    THEN get_model(R, c.default_model, ok)
    ELSE [reg |-> R, ret |-> NoModel]

(***************************************************************************)
(* factory.py: get_fallback_model.  The for loop over fallback_chain from  *)
(* entry k on.                                                             *)
(***************************************************************************)
RECURSIVE fallback_walk(_, _, _, _, _)
fallback_walk(R, chain, k, exclude, ok) ==
    IF k > Len(chain)
    THEN [reg |-> R, ret |-> NoModel]
    ELSE IF ~IsModelType(chain[k])
    THEN fallback_walk(R, chain, k + 1, exclude, ok)
    ELSE IF exclude # NONE /\ chain[k] = exclude
    THEN fallback_walk(R, chain, k + 1, exclude, ok)
    ELSE LET g == get_model(R, chain[k], ok)
         IN IF g.ret # NoModel
            THEN g
            ELSE fallback_walk(g.reg, chain, k + 1, exclude, ok)

\* the fallback_enabled test is missing
get_fallback_model_always(R, c, exclude, ok) ==
    fallback_walk(R, c.fallback_chain, 1, exclude, ok)

get_fallback_model(R, c, exclude, ok) ==
    IF ~c.fallback_enabled
    THEN [reg |-> R, ret |-> NoModel]
    ELSE fallback_walk(R, c.fallback_chain, 1, exclude, ok)

\* no isinstance test matches: the default is returned
get_model_type_from_adapter_default(m) == U2NET

\* pipeline.py: _get_model_type_from_adapter (isinstance on the adapter classes)
get_model_type_from_adapter(m) ==
    IF m.type = U2NET THEN U2NET
    ELSE IF m.type = RMBG2_LOCAL THEN RMBG2_LOCAL
    ELSE IF m.type = RMBG2_API THEN RMBG2_API
    ELSE U2NET

(***************************************************************************)
(* pipeline.py: error messages.  A message is kept as its fixed text       *)
(* (kind), the text of the last attempt's error it quotes (last) and the   *)
(* backend whose adapter raised that error (src; NONE when the quoted      *)
(* error is the timeout text, which names no backend).                     *)
(***************************************************************************)
NoError == [kind |-> "none", last |-> "none", src |-> NONE]

\* f"Processing timeout after {self.config.timeout}s"
TimeoutError == [kind |-> "attempt", last |-> "Processing timeout", src |-> NONE]

\* str(e) of an exception raised by the adapter of backend T
AdapterError(T) == [kind |-> "attempt", last |-> "adapter error", src |-> T]

\* Exception(f"All retries failed. Last error: {last_error}")
AllRetriesFailed(e) == [kind |-> "All retries failed", last |-> e.last, src |-> e.src]

\* Exception("No available models")
NoAvailableModels == [kind |-> "No available models", last |-> "none", src |-> NONE]

\* ValueError of ModelType(self.config.default_model)
NotAValidModelType == [kind |-> "is not a valid ModelType", last |-> "none", src |-> NONE]

\* an exception raised by _preprocess_image (image.convert('RGB'))
PreprocessError == [kind |-> "preprocessing failed", last |-> "none", src |-> NONE]

\* an exception raised by _postprocess_image (image.convert('RGBA'))
PostprocessError == [kind |-> "postprocessing failed", last |-> "none", src |-> NONE]

\* an exception raised inside the except block of process
InternalFault == [kind |-> "internal fault", last |-> "none", src |-> NONE]

(***************************************************************************)
(* base.py: ProcessingResult.  image is the image the result carries (the  *)
(* number of the input image it was made from, 0 = None); of is the number *)
(* of the input image the process call was made for (not a field of the    *)
(* class: it names the call).  kind tells a returned ProcessingResult      *)
(* ("result") from an exception that left process ("exception").           *)
(***************************************************************************)
ProcessingResult(status, image, model_used, error, of) ==
    [kind |-> "result", status |-> status, image |-> image,
     model_used |-> model_used, error |-> error, of |-> of]

Raised(error, of) ==
    [kind |-> "exception", status |-> "none", image |-> 0,
     model_used |-> NONE, error |-> error, of |-> of]

NoOutcome ==
    [kind |-> "none", status |-> "none", image |-> 0,
     model_used |-> NONE, error |-> NoError, of |-> 0]

\* ProcessingResult.success
success(r) == r.status = SUCCESS

(***************************************************************************)
(* One process() coroutine.  pc: "none" (no coroutine), "created" (handed  *)
(* to the event loop, not yet run), "calling" (inside asyncio.wait_for on  *)
(* model.remove_background), "sleeping" (inside asyncio.sleep(retry_delay))*)
(* and "done" (returned or raised).  invoked counts the calls of           *)
(* remove_background per backend, failures those of them that raised or    *)
(* timed out.  late: the attempt in progress, or the one that ended last,  *)
(* has run longer than config.timeout.                                     *)
(***************************************************************************)
Slots == 1..MaxImages

NoInvocation == [T \in ModelType |-> 0]

NoTask ==
    [pc |-> "none", model |-> NoModel, used |-> NONE, attempt |-> 0,
     last_error |-> NoError, invoked |-> NoInvocation, failures |-> NoInvocation,
     late |-> FALSE, outcome |-> NoOutcome]

CreatedTask == [NoTask EXCEPT !.pc = "created"]

ZeroMetrics == [total_processed |-> 0, total_successful |-> 0, total_failed |-> 0]

\* a failure is counted in total_failed only
update_metrics_failed_only(m, ok) ==
    [total_processed |-> IF ok THEN m.total_processed + 1 ELSE m.total_processed,
     total_successful |-> IF ok THEN m.total_successful + 1 ELSE m.total_successful,
     total_failed |-> IF ok THEN m.total_failed ELSE m.total_failed + 1]

\* pipeline.py: _update_metrics (the counters; total_time is a sum of durations)
update_metrics(m, ok) ==
    [total_processed |-> m.total_processed + 1,
     total_successful |-> IF ok THEN m.total_successful + 1 ELSE m.total_successful,
     total_failed |-> IF ok THEN m.total_failed ELSE m.total_failed + 1]

\* the counters are updated whatever collect_metrics says
record_outcome_always(m, c, ok) == update_metrics(m, ok)

\* if self.config.collect_metrics: self._update_metrics(...)
record_outcome(m, c, ok) == IF c.collect_metrics THEN update_metrics(m, ok) ELSE m

(***************************************************************************)
(* pipeline.py: process, lines 70-86: the model the request starts with.   *)
(* The result is the registry afterwards, the model, used_model_type and   *)
(* the exception raised on the way (NoError when none).                    *)
(***************************************************************************)
\* line 76 is inside a try of its own: an unknown default_model goes on to the
\* fallback chain
resolve_model_unknown_default_falls_back(R, c, model_type, use_fallback, ok) ==
    LET g == IF model_type # NONE
             THEN get_model(R, model_type, ok)
             ELSE get_default_model(R, c, ok)
        used == IF model_type # NONE THEN model_type ELSE c.default_model
    IN IF g.ret # NoModel
       THEN [reg |-> g.reg, model |-> g.ret, used |-> used, error |-> NoError]
       ELSE IF use_fallback /\ c.fallback_enabled
       THEN LET f == get_fallback_model(g.reg, c, used, ok)
            IN IF f.ret # NoModel
               THEN [reg |-> f.reg, model |-> f.ret,
                     used |-> get_model_type_from_adapter(f.ret), error |-> NoError]
               ELSE [reg |-> f.reg, model |-> NoModel, used |-> used,
                     error |-> NoAvailableModels]
       ELSE [reg |-> g.reg, model |-> NoModel, used |-> used, error |-> NoAvailableModels]

\* line 79 tests config.fallback_enabled only, not use_fallback
resolve_model_always_fallback(R, c, model_type, use_fallback, ok) ==
    LET g == IF model_type # NONE
             THEN get_model(R, model_type, ok)
             ELSE get_default_model(R, c, ok)
        used == IF model_type # NONE THEN model_type ELSE c.default_model
    IN IF model_type = NONE /\ ~IsModelType(c.default_model)
       THEN [reg |-> g.reg, model |-> NoModel, used |-> NONE, error |-> NotAValidModelType]
       ELSE IF g.ret # NoModel
       THEN [reg |-> g.reg, model |-> g.ret, used |-> used, error |-> NoError]
       ELSE LET f == get_fallback_model(g.reg, c, used, ok)
            IN IF f.ret # NoModel
               THEN [reg |-> f.reg, model |-> f.ret,
                     used |-> get_model_type_from_adapter(f.ret), error |-> NoError]
               ELSE [reg |-> f.reg, model |-> NoModel, used |-> used,
                     error |-> NoAvailableModels]

resolve_model(R, c, model_type, use_fallback, ok) ==
    LET g == IF model_type # NONE
             THEN get_model(R, model_type, ok)
             ELSE get_default_model(R, c, ok)
        used == IF model_type # NONE THEN model_type ELSE c.default_model
    IN IF model_type = NONE /\ ~IsModelType(c.default_model)
       THEN [reg |-> g.reg, model |-> NoModel, used |-> NONE, error |-> NotAValidModelType]
       ELSE IF g.ret # NoModel
       THEN [reg |-> g.reg, model |-> g.ret, used |-> used, error |-> NoError]
       ELSE IF use_fallback /\ c.fallback_enabled
       THEN LET f == get_fallback_model(g.reg, c, used, ok)
            IN IF f.ret # NoModel
               THEN [reg |-> f.reg, model |-> f.ret,
                     used |-> get_model_type_from_adapter(f.ret), error |-> NoError]
               ELSE [reg |-> f.reg, model |-> NoModel, used |-> used,
                     error |-> NoAvailableModels]
       ELSE [reg |-> g.reg, model |-> NoModel, used |-> used, error |-> NoAvailableModels]

\* the Failed result keeps model_used
failed_task_keeps_model(tk, t, error, fault) ==
    [tk EXCEPT !.pc = "done",
               !.outcome = IF fault THEN Raised(InternalFault, t)
                           ELSE ProcessingResult(FAILED, 0, U2NET, error, t)]

\* lines 113-125: the except block; fault = an exception is raised inside it
failed_task(tk, t, error, fault) ==
    [tk EXCEPT !.pc = "done",
               !.outcome = IF fault THEN Raised(InternalFault, t)
                           ELSE ProcessingResult(FAILED, 0, NONE, error, t)]

failed_metrics(m, c, fault) == IF fault THEN m ELSE record_outcome(m, c, FALSE)

\* lines 91-111: the return of a successful request
succeeded_task(tk, t) ==
    [tk EXCEPT !.pc = "done",
               !.outcome = ProcessingResult(SUCCESS, t, tk.used, NoError, t)]

\* the loop bound off by one: range(self.config.max_retries + 2)
has_next_attempt_one_more(c, a) == a + 1 < c.max_retries + 2

\* for attempt in range(self.config.max_retries + 1): is there an iteration after a?
has_next_attempt(c, a) == a + 1 < c.max_retries + 1

\* model.remove_background(image) is called
\* the backend call is never started: the coroutine stays suspended
invoke_never_starts(tk) == [tk EXCEPT !.pc = "sleeping"]

invoke(tk) ==
    [tk EXCEPT !.pc = "calling", !.invoked[tk.model.type] = @ + 1, !.late = FALSE]

(***************************************************************************)
(* The top-level call.  kind: "idle", "process" (a direct process call,    *)
(* run by slot 1), "batch" (process_batch inside its for loop) and         *)
(* "returned" (process_batch has returned: total, successful, failed and   *)
(* results are the fields of its BatchProcessingResult).  n = len(images); *)
(* the images are numbered 1..n.  i is the loop variable of process_batch. *)
(* "raised": process_batch raised.  overtaken records that some process    *)
(* call of the batch finished while the call for an earlier image of its   *)
(* chunk was still running.                                                *)
(***************************************************************************)
IdleCall ==
    [kind |-> "idle", n |-> 0, model_type |-> NONE, use_fallback |-> TRUE,
     i |-> 0, results |-> <<>>, total |-> 0, successful |-> 0, failed |-> 0,
     overtaken |-> FALSE]

\* before is the instance id cached for arg when the call was made, stale
\* whether the stored health record of arg was past its TTL then
NoLast ==
    [op |-> "none", arg |-> NONE, model |-> NoModel, health |-> NoHealth,
     before |-> 0, stale |-> FALSE, factory |-> 1]

NoTasks == [t \in Slots |-> NoTask]

Min(a, b) == IF a < b THEN a ELSE b

\* a slice one image too long: images[i:i + batch_size + 1]
chunk_one_more(c, i, n) == (i + 1)..Min(i + c.batch_size + 1, n)

\* batch = images[i:i + batch_size], as image numbers
chunk(c, i, n) == (i + 1)..Min(i + c.batch_size, n)

\* the isinstance(result, Exception) branch is missing
converted_unchanged(r) == r

\* asyncio.gather: the results in the order of the awaitables, then lines 159-167
converted(r) ==
    IF r.kind = "exception"
    THEN ProcessingResult(FAILED, 0, NONE, r.error, r.of)
    ELSE r

in_order(tk, c, i, n) ==
    [k \in 1..Cardinality(chunk(c, i, n)) |-> tk[i + k].outcome]

IsException(r) == r.kind = "exception"

IsNoException(r) == r.kind # "exception"

\* the exceptions are collected apart and appended after the results
gathered_exceptions_last(tk, c, i, n) ==
    SelectSeq(in_order(tk, c, i, n), IsNoException)
    \o [k \in 1..Len(SelectSeq(in_order(tk, c, i, n), IsException)) |->
           converted(SelectSeq(in_order(tk, c, i, n), IsException)[k])]

\* the exceptions are logged and left out
gathered_without_exceptions(tk, c, i, n) ==
    SelectSeq(in_order(tk, c, i, n), IsNoException)

gathered(tk, c, i, n) ==
    [k \in 1..Cardinality(chunk(c, i, n)) |-> converted(tk[i + k].outcome)]

\* sum(1 for r in results if r.success)
RECURSIVE count_success(_)
count_success(rs) ==
    IF rs = <<>> THEN 0
    ELSE (IF success(Head(rs)) THEN 1 ELSE 0) + count_success(Tail(rs))

\* lines 169-181: the BatchProcessingResult; r.success of an entry that is no
\* ProcessingResult raises AttributeError
batch_result(cl) ==
    IF \E k \in 1..Len(cl.results) : cl.results[k].kind # "result"
    THEN [cl EXCEPT !.kind = "raised"]
    ELSE [cl EXCEPT !.kind = "returned",
                    !.total = cl.n,
                    !.successful = count_success(cl.results),
                    !.failed = Len(cl.results) - count_success(cl.results)]

\* a / b of Python: ZeroDivisionError for b = 0, else the quotient, kept as
\* its two operands
Div(a, b) ==
    IF b = 0 THEN [kind |-> "ZeroDivisionError", num |-> 0, den |-> 0]
    ELSE [kind |-> "quotient", num |-> a, den |-> b]

\* the literal 0.0
Zero == [kind |-> "quotient", num |-> 0, den |-> 1]

IsZero(q) == q.kind = "quotient" /\ q.num = 0

IsError(q) == q.kind = "ZeroDivisionError"

\* the quotient is computed whatever the total
success_rate_unguarded(b) == Div(b.successful, b.total)

\* base.py: BatchProcessingResult.success_rate
success_rate(b) == IF b.total > 0 THEN Div(b.successful, b.total) ELSE Zero

\* durations are not measured: a sum of durations is one unit per item
Elapsed(n) == n

\* line 172: total_time / len(results) if results else 0.0
average_time(b) ==
    IF b.results # <<>> THEN Div(Elapsed(Len(b.results)), Len(b.results)) ELSE Zero

\* pipeline.py: get_metrics, the two derived entries
get_metrics(m) ==
    [success_rate |-> IF m.total_processed > 0
                      THEN Div(m.total_successful, m.total_processed) ELSE Zero,
     average_time |-> IF m.total_processed > 0
                      THEN Div(Elapsed(m.total_processed), m.total_processed) ELSE Zero]

\* the for loop at i: gather the next chunk, or leave the loop and return
loop_step(cl, c) ==
    IF cl.i < cl.n
    THEN [call |-> cl,
          task |-> [t \in Slots |-> IF t \in chunk(c, cl.i, cl.n) THEN CreatedTask ELSE NoTask]]
    ELSE [call |-> batch_result(cl), task |-> NoTasks]

(***************************************************************************)
(* Initial state: a pipeline was constructed with one of the               *)
(* configurations of cs that PipelineConfig accepts; nothing is cached     *)
(* (the class attributes of ModelFactory are empty dictionaries).          *)
(***************************************************************************)
InitWith(cs) ==
    /\ cfg \in {c \in cs : PipelineConfig(c)}
    /\ instances = [T \in ModelType |-> 0]
    /\ health = [T \in ModelType |-> NoHealth]
    /\ ran = ZeroRan
    /\ metrics = ZeroMetrics
    /\ task = NoTasks
    /\ call = IdleCall
    /\ last = NoLast
    /\ made = [T \in ModelType |-> 0]

\* the identities of T's adapters still referenced: by the cache, by a running
\* request, by the caller of the last factory call
Referenced(T) ==
    {instances[T]}
    \cup {task[t].model.id : t \in {u \in Slots : task[u].model.type = T}}
    \cup (IF last.model.type = T THEN {last.model.id} ELSE {})

FreshId(T) == CHOOSE i \in 1..(Cardinality(Referenced(T)) + 1) :
                  /\ i \notin Referenced(T)
                  /\ \A j \in 1..(i - 1) : j \in Referenced(T)

\* the registry as one value, for the operators that thread it through
Reg == [instances |-> instances, health |-> health, ran |-> ran,
        fresh |-> [T \in ModelType |-> FreshId(T)]]

\* the builder of each cached instance once factory F has left the cache as
\* inst: an instance other than the one cached before was built by F
MadeBy(F, inst) ==
    [T \in ModelType |-> IF inst[T] = instances[T] THEN made[T]
                         ELSE IF inst[T] = 0 THEN 0 ELSE F]

\* factory F leaves the registry as R
SetRegOn(F, R) ==
    /\ instances' = R.instances
    /\ health' = R.health
    /\ ran' = R.ran
    /\ made' = MadeBy(F, R.instances)

\* the pipeline's factory is factory 1
SetReg(R) ==
    /\ instances' = R.instances
    /\ health' = R.health
    /\ ran' = R.ran
    /\ made' = MadeBy(1, R.instances)

\* no call is running: none was made, process_batch has returned, or the
\* process call has (its return value is task[1].outcome)
NoCallInProgress ==
    \/ call.kind \in {"idle", "returned", "raised"}
    \/ call.kind = "process" /\ task[1].pc = "done"

(***************************************************************************)
(* pipeline.py: process.                                                   *)
(***************************************************************************)
\* a caller awaits pipeline.process(image, model_type, use_fallback)
CallProcess(mt, uf) ==
    /\ NoCallInProgress
    /\ metrics.total_processed < MaxProcessed
    /\ call' = [IdleCall EXCEPT !.kind = "process", !.n = 1,
                                !.model_type = mt, !.use_fallback = uf]
    /\ task' = [NoTasks EXCEPT ![1] = CreatedTask]
    /\ ran' = ZeroRan
    /\ UNCHANGED <<cfg, instances, made, health, metrics, last>>

\* slot t finishes: does it overtake an earlier image of its chunk?
finishes(t) ==
    [call EXCEPT !.overtaken = @ \/ \E u \in Slots : u < t /\ task[u].pc \notin {"none", "done"}]

\* the event loop runs coroutines in the order gather created them
FirstCreated(t) == \A u \in Slots : u < t => task[u].pc # "created"

\* process from its first line to the first await (lines 63-89, 199-209),
\* or to its return when no model can be had (lines 113-125)
ProcessStart(t, ok, fault) ==
    /\ task[t].pc = "created"
    /\ FirstCreated(t)
    /\ LET r == resolve_model(Reg, cfg, call.model_type, call.use_fallback, ok)
       IN /\ SetReg(r.reg)
          /\ IF r.error # NoError
             THEN /\ task' = [task EXCEPT ![t] = failed_task(@, t, r.error, fault)]
                  /\ metrics' = failed_metrics(metrics, cfg, fault)
                  /\ call' = finishes(t)
             ELSE /\ ~fault
                  /\ task' = [task EXCEPT ![t] = invoke([@ EXCEPT !.model = r.model, !.used = r.used])]
                  /\ UNCHANGED <<metrics, call>>
    /\ UNCHANGED <<cfg, last>>

\* config.timeout seconds have passed since wait_for was entered and the
\* backend call is still running (line 206-209)
DeadlinePasses(t) ==
    /\ task[t].pc = "calling"
    /\ ~task[t].late
    /\ task' = [task EXCEPT ![t].late = TRUE]
    /\ UNCHANGED <<cfg, instances, made, health, ran, metrics, call, last>>

\* lines 66-68, 113-125: _preprocess_image raises
PreprocessFails(t) ==
    /\ task[t].pc = "created"
    /\ FirstCreated(t)
    /\ cfg.enable_preprocessing
    /\ task' = [task EXCEPT ![t] = failed_task(@, t, PreprocessError, FALSE)]
    /\ metrics' = failed_metrics(metrics, cfg, FALSE)
    /\ call' = finishes(t)
    /\ UNCHANGED <<cfg, instances, made, health, ran, last>>

\* remove_background returns an image and _postprocess_image raises on it:
\* lines 211, 92-93, 113-125
PostprocessFails(t) ==
    /\ task[t].pc = "calling"
    /\ cfg.enable_postprocessing
    /\ task' = [task EXCEPT ![t] = failed_task(@, t, PostprocessError, FALSE)]
    /\ metrics' = failed_metrics(metrics, cfg, FALSE)
    /\ call' = finishes(t)
    /\ UNCHANGED <<cfg, instances, made, health, ran, last>>

\* remove_background returns an image: lines 211, 91-111.  The coroutines of
\* the adapter classes (models.py, app/core/background_removal*.py) run
\* synchronous code and never suspend, so the event loop cannot run the timer
\* of wait_for while they execute: such a call returns its image also after
\* the deadline.
CallReturns(t) ==
    /\ task[t].pc = "calling"
    /\ task' = [task EXCEPT ![t] = succeeded_task(@, t)]
    /\ metrics' = record_outcome(metrics, cfg, TRUE)
    /\ call' = finishes(t)
    /\ UNCHANGED <<cfg, instances, made, health, ran, last>>

\* remove_background raises, or wait_for times out: lines 213-220, 113-125.
\* wait_for raises TimeoutError only past the deadline, and only when the
\* backend coroutine has suspended.
CallFails(t, timeout, fault) ==
    /\ task[t].pc = "calling"
    /\ timeout => task[t].late
    /\ LET e == IF timeout THEN TimeoutError ELSE AdapterError(task[t].model.type)
           tk == [task[t] EXCEPT !.last_error = e, !.failures[task[t].model.type] = @ + 1]
       IN IF has_next_attempt(cfg, tk.attempt)
          THEN /\ ~fault
               /\ task' = [task EXCEPT ![t] = [tk EXCEPT !.attempt = @ + 1, !.pc = "sleeping"]]
               /\ UNCHANGED <<metrics, call>>
          ELSE /\ task' = [task EXCEPT ![t] = failed_task(tk, t, AllRetriesFailed(e), fault)]
               /\ metrics' = failed_metrics(metrics, cfg, fault)
               /\ call' = finishes(t)
    /\ UNCHANGED <<cfg, instances, made, health, ran, last>>

\* asyncio.sleep(retry_delay) is over: the next attempt, lines 201-209
RetryWakes(t) ==
    /\ task[t].pc = "sleeping"
    /\ task' = [task EXCEPT ![t] = invoke(@)]
    /\ UNCHANGED <<cfg, instances, made, health, ran, metrics, call, last>>

(***************************************************************************)
(* pipeline.py: process_batch.                                             *)
(***************************************************************************)
\* a caller awaits pipeline.process_batch(images, model_type, use_fallback), len(images) = n
CallProcessBatch(n, mt, uf) ==
    /\ NoCallInProgress
    /\ metrics.total_processed + n <= MaxProcessed
    /\ LET s == loop_step([IdleCall EXCEPT !.kind = "batch", !.n = n,
                                           !.model_type = mt, !.use_fallback = uf], cfg)
       IN call' = s.call /\ task' = s.task
    /\ ran' = ZeroRan
    /\ UNCHANGED <<cfg, instances, made, health, metrics, last>>

\* gather is done: lines 158-167, then the next iteration or lines 169-181
GatherReturns ==
    /\ call.kind = "batch"
    /\ \A t \in chunk(cfg, call.i, call.n) : task[t].pc = "done"
    /\ LET s == loop_step([call EXCEPT !.results = @ \o gathered(task, cfg, call.i, call.n),
                                       !.i = @ + cfg.batch_size], cfg)
       IN call' = s.call /\ task' = s.task
    /\ UNCHANGED <<cfg, instances, made, health, ran, metrics, last>>

(***************************************************************************)
(* factory.py: the methods of ModelFactory called directly.  last keeps    *)
(* what the call returned; ran counts the constructor runs of the call.    *)
(***************************************************************************)
FreshReg == [Reg EXCEPT !.ran = ZeroRan]

GetModel(T, ok) ==
    /\ NoCallInProgress
    /\ LET r == get_model(FreshReg, T, ok)
       IN /\ SetReg(r.reg)
          /\ last' = [NoLast EXCEPT !.op = "get_model", !.arg = T, !.model = r.ret,
                                     !.before = instances[T],
                                     !.stale = (health[T].status # "absent"
                                                /\ ~IsRecent(health[T]))]
    /\ UNCHANGED <<cfg, metrics, task, call>>

GetDefaultModel(ok) ==
    /\ NoCallInProgress
    /\ LET r == get_default_model(FreshReg, cfg, ok)
       IN /\ SetReg(r.reg)
          /\ last' = [NoLast EXCEPT !.op = "get_default_model", !.arg = cfg.default_model,
                                     !.model = r.ret]
    /\ UNCHANGED <<cfg, metrics, task, call>>

GetFallbackModel(exclude, ok) ==
    /\ NoCallInProgress
    /\ LET r == get_fallback_model(FreshReg, cfg, exclude, ok)
       IN /\ SetReg(r.reg)
          /\ last' = [NoLast EXCEPT !.op = "get_fallback_model", !.arg = exclude,
                                     !.model = r.ret]
    /\ UNCHANGED <<cfg, metrics, task, call>>

CheckHealth(T) ==
    /\ NoCallInProgress
    /\ LET r == check_health(FreshReg, T)
       IN /\ SetReg(r.reg)
          /\ last' = [NoLast EXCEPT !.op = "check_health", !.arg = T, !.health = r.ret,
                                     !.before = instances[T],
                                     !.stale = (health[T].status # "absent"
                                                /\ ~IsRecent(health[T]))]
    /\ UNCHANGED <<cfg, metrics, task, call>>

\* get_all_health_status: check_health for each member of ModelType, in its order
GetAllHealthStatus ==
    /\ NoCallInProgress
    /\ LET r1 == check_health(FreshReg, U2NET)
           r2 == check_health(r1.reg, RMBG2_LOCAL)
           r3 == check_health(r2.reg, RMBG2_API)
       IN /\ SetReg(r3.reg)
          /\ last' = [NoLast EXCEPT !.op = "get_all_health_status"]
    /\ UNCHANGED <<cfg, metrics, task, call>>

\* clear_cache empties the dictionary whatever its argument
cleared_every(f, which, empty) == [T \in ModelType |-> empty]

\* clear_cache(model_type); which = NONE clears all
cleared(f, which, empty) ==
    [T \in ModelType |-> IF which = NONE \/ which = T THEN empty ELSE f[T]]

ClearCache(which) ==
    /\ NoCallInProgress
    /\ instances' = cleared(instances, which, 0)
    /\ health' = cleared(health, which, NoHealth)
    /\ ran' = ZeroRan
    /\ made' = cleared(made, which, 0)
    /\ last' = [NoLast EXCEPT !.op = "clear_cache", !.arg = which,
                               !.before = IF which = NONE THEN 0 ELSE instances[which]]
    /\ UNCHANGED <<cfg, metrics, task, call>>

\* d minutes pass: every stored record is d minutes older
aged(h, d) ==
    IF h.status = "absent" THEN h ELSE [h EXCEPT !.age = Min(h.age + d, HealthTTL)]

Tick(d) ==
    /\ health' = [T \in ModelType |-> aged(health[T], d)]
    /\ health' # health
    /\ UNCHANGED <<cfg, instances, made, ran, metrics, task, call, last>>

(***************************************************************************)
(* app/core/background_removal.py, background_removal_rmbg.py and          *)
(* background_removal_rmbg_local.py: batch_remove_background, the same     *)
(* loop in the three services.  An image is its number and whether its     *)
(* background was removed.  While the loop runs, call holds its locals:    *)
(* images, idx (iterations done), results, and failed (per iteration,      *)
(* whether remove_background raised).                                      *)
(***************************************************************************)
Image(x) == [image |-> x, removed |-> FALSE]

\* what remove_background returns for img
Removed(img) == [img EXCEPT !.removed = TRUE]

CoreIdle ==
    [kind |-> "idle", service |-> NONE, images |-> <<>>, idx |-> 0,
     results |-> <<>>, failed |-> <<>>]

\* the except branch logs the error and appends nothing
batch_iteration_skips(results, image, raises) ==
    IF raises THEN results ELSE Append(results, Removed(image))

\* one iteration: the result of remove_background, or the image itself when it raised
batch_iteration(results, image, raises) ==
    Append(results, IF raises THEN image ELSE Removed(image))

\* a caller awaits service.batch_remove_background(images)
CallBatchRemoveBackground(service, images) ==
    /\ call.kind \in {"idle", "core_returned"}
    /\ call' = [CoreIdle EXCEPT !.kind = "batch_remove_background",
                                !.service = service, !.images = images]
    /\ UNCHANGED <<cfg, instances, made, health, ran, metrics, task, last>>

\* the next iteration of the for loop
BatchRemoveIteration(raises) ==
    /\ call.kind = "batch_remove_background"
    /\ call.idx < Len(call.images)
    /\ call' = [call EXCEPT !.idx = @ + 1,
                            !.results = batch_iteration(@, call.images[call.idx + 1], raises),
                            !.failed = Append(@, raises)]
    /\ UNCHANGED <<cfg, instances, made, health, ran, metrics, task, last>>

\* the loop is over: return results
BatchRemoveReturns ==
    /\ call.kind = "batch_remove_background"
    /\ call.idx = Len(call.images)
    /\ call' = [call EXCEPT !.kind = "core_returned"]
    /\ UNCHANGED <<cfg, instances, made, health, ran, metrics, task, last>>

(***************************************************************************)
(* Specifications.                                                         *)
(***************************************************************************)
Oracles == [ModelType -> BOOLEAN]

\* the oracles that differ on the types S only (the others are not constructed)
OraclesOf(S) == { ok \in Oracles : \A T \in ModelType \ S : ok[T] }

\* minutes that pass in one step of the clock: up to just before, and up to, the TTL
TickSteps == {HealthTTL - 1, HealthTTL}

OptionalModelType == ModelType \cup {NONE}

\* Field(default=10, ...) of batch_size
BatchSizeDefault == 10

MaxRetriesRange == MaxRetriesGe..MaxRetriesLe

\* configurations of the single-request specification
ProcessConfigs ==
    { Config(dm, fe, DefaultFallbackChain, BatchSizeDefault, mr, TRUE) :
        dm \in {RMBG2_LOCAL, BOGUS}, fe \in BOOLEAN, mr \in MaxRetriesRange }
    \cup
    { Config(U2NET, fe, <<U2NET, BOGUS, RMBG2_API>>, BatchSizeDefault, 1, FALSE) :
        fe \in BOOLEAN }
    \cup
    \* the other combinations of enable_preprocessing and enable_postprocessing
    { [Config(U2NET, TRUE, DefaultFallbackChain, BatchSizeDefault, 0, cm)
          EXCEPT !.enable_preprocessing = pre, !.enable_postprocessing = post] :
        cm \in BOOLEAN, pre \in BOOLEAN, post \in BOOLEAN }
    \cup
    \* a chain that names a backend twice
    { Config(U2NET, TRUE, <<RMBG2_LOCAL, U2NET, RMBG2_LOCAL>>, BatchSizeDefault, 0, TRUE) }
    \cup
    \* field values outside their ge/le constraints
    { [Config(U2NET, TRUE, DefaultFallbackChain, bs, mr, TRUE)
          EXCEPT !.timeout = to, !.retry_delay = rd] :
        bs \in {BatchSizeGe - 1, BatchSizeDefault, BatchSizeLe + 1},
        mr \in {MaxRetriesGe - 1, 1, MaxRetriesLe + 1},
        to \in {TimeoutGe - 1, TimeoutDefault, TimeoutLe + 1},
        rd \in {RetryDelayGe - 1, RetryDelayDefault, RetryDelayLe + 1} }

ProcessSteps ==
    \/ \E ok \in Oracles : ProcessStart(1, ok, FALSE)
    \/ CallReturns(1)
    \/ \E timeout \in BOOLEAN : CallFails(1, timeout, FALSE)
    \/ DeadlinePasses(1)
    \/ RetryWakes(1)
    \/ PreprocessFails(1)
    \/ PostprocessFails(1)

NextProcess ==
    \/ \E mt \in OptionalModelType, uf \in BOOLEAN : CallProcess(mt, uf)
    \/ ProcessSteps

InitProcess == InitWith(ProcessConfigs)

SpecProcess == InitProcess /\ [][NextProcess]_vars

\* The same requests under the scheduling the event loop provides: a coroutine
\* that is ready runs, a backend call returns, raises or is timed out, and
\* asyncio.sleep(retry_delay) ends.
LiveConfigs ==
    { Config(RMBG2_LOCAL, TRUE, DefaultFallbackChain, BatchSizeDefault, mr, FALSE) :
        mr \in {MaxRetriesGe, MaxRetriesGe + 1, MaxRetriesGe + 2} }
    \cup
    { Config(BOGUS, TRUE, DefaultFallbackChain, BatchSizeDefault, 1, FALSE) }

InitProcessLive == InitWith(LiveConfigs)

SpecProcessLive == InitProcessLive /\ [][NextProcess]_vars /\ WF_vars(ProcessSteps)

\* configurations of the batch specification
BatchConfigs ==
    { Config(U2NET, fe, DefaultFallbackChain, bs, mr, TRUE) :
        fe \in BOOLEAN, bs \in BatchSizeGe..MaxBatchSize, mr \in {1} }

\* the coroutines of a batch; an exception may be raised inside the except
\* block of process
BatchSteps ==
    \/ \E t \in Slots, ok \in Oracles, fault \in BOOLEAN : ProcessStart(t, ok, fault)
    \/ \E t \in Slots : CallReturns(t)
    \/ \E t \in Slots, fault \in BOOLEAN : CallFails(t, FALSE, fault)
    \/ \E t \in Slots : RetryWakes(t)

NextBatch ==
    \/ \E n \in 0..MaxImages, mt \in {NONE, RMBG2_LOCAL}, uf \in BOOLEAN :
          CallProcessBatch(n, mt, uf)
    \/ BatchSteps
    \/ GatherReturns

InitBatch == InitWith(BatchConfigs)

SpecBatch == InitBatch /\ [][NextBatch]_vars

(***************************************************************************)
(* factory.py: several ModelFactory objects in one process.  Factory 1 is  *)
(* the pipeline's, with cfg; factory 2 was constructed with another        *)
(* configuration.  _instances and _health_status are attributes of the     *)
(* class (lines 31-32) and every method changes them in place              *)
(* (self._instances[model_type] = ..., .pop, .clear), never rebinding them *)
(* on self, so the name self._instances is the class's dictionary in every *)
(* factory.                                                                *)
(***************************************************************************)
Factories == {1, 2}

OtherConfig == Config(RMBG2_API, FALSE, <<RMBG2_LOCAL>>, BatchSizeDefault, 0, FALSE)

\* self.config of factory F
ConfigOf(F) == IF F = 1 THEN cfg ELSE OtherConfig

\* each factory but the first has dictionaries of its own
RegistryOfInstance(F) ==
    IF F = 1
    THEN FreshReg
    ELSE [FreshReg EXCEPT !.instances = [T \in ModelType |-> 0],
                          !.health = [T \in ModelType |-> NoHealth]]

\* self._instances and self._health_status as factory F reads them
RegistryOf(F) == FreshReg

GetModelOn(F, T, ok) ==
    /\ LET r == get_model(RegistryOf(F), T, ok)
       IN /\ SetRegOn(F, r.reg)
          /\ last' = [NoLast EXCEPT !.op = "get_model", !.arg = T, !.model = r.ret,
                                     !.before = instances[T],
                                     !.stale = (health[T].status # "absent"
                                                /\ ~IsRecent(health[T])),
                                     !.factory = F]
    /\ UNCHANGED <<cfg, metrics, task, call>>

GetDefaultModelOn(F, ok) ==
    /\ LET r == get_default_model(RegistryOf(F), ConfigOf(F), ok)
       IN /\ SetRegOn(F, r.reg)
          /\ last' = [NoLast EXCEPT !.op = "get_default_model",
                                     !.arg = ConfigOf(F).default_model,
                                     !.model = r.ret, !.factory = F]
    /\ UNCHANGED <<cfg, metrics, task, call>>

CheckHealthOn(F, T) ==
    /\ LET r == check_health(RegistryOf(F), T)
       IN /\ SetRegOn(F, r.reg)
          /\ last' = [NoLast EXCEPT !.op = "check_health", !.arg = T, !.health = r.ret,
                                     !.before = instances[T],
                                     !.stale = (health[T].status # "absent"
                                                /\ ~IsRecent(health[T])),
                                     !.factory = F]
    /\ UNCHANGED <<cfg, metrics, task, call>>

ClearCacheOn(F, which) ==
    /\ instances' = cleared(RegistryOf(F).instances, which, 0)
    /\ health' = cleared(RegistryOf(F).health, which, NoHealth)
    /\ ran' = ZeroRan
    /\ made' = cleared(made, which, 0)
    /\ last' = [NoLast EXCEPT !.op = "clear_cache", !.arg = which,
                               !.before = IF which = NONE THEN 0 ELSE instances[which],
                               !.factory = F]
    /\ UNCHANGED <<cfg, metrics, task, call>>

\* configurations of the registry specification
FactoryConfigs ==
    { Config(U2NET, TRUE, DefaultFallbackChain, BatchSizeDefault, 2, TRUE),
      Config(U2NET, FALSE, DefaultFallbackChain, BatchSizeDefault, 2, TRUE),
      Config(BOGUS, TRUE, <<U2NET, BOGUS, RMBG2_API>>, BatchSizeDefault, 2, TRUE) }

NextFactory ==
    \/ \E T \in ModelType : \E ok \in OraclesOf({T}) : GetModel(T, ok)
    \/ \E ok \in OraclesOf({cfg.default_model}) : GetDefaultModel(ok)
    \/ \E exclude \in OptionalModelType, ok \in Oracles : GetFallbackModel(exclude, ok)
    \/ \E T \in ModelType : CheckHealth(T)
    \/ GetAllHealthStatus
    \/ \E which \in OptionalModelType : ClearCache(which)
    \/ \E d \in TickSteps : Tick(d)

InitFactory == InitWith(FactoryConfigs)

\* the input lists of batch_remove_background: up to MaxImages images
Images == {Image(1), Image(2)}

ImageLists == UNION { [1..n -> Images] : n \in 0..MaxImages }

NextCoreBatch ==
    \/ \E service \in ModelType, images \in ImageLists :
          CallBatchRemoveBackground(service, images)
    \/ \E raises \in BOOLEAN : BatchRemoveIteration(raises)
    \/ BatchRemoveReturns

InitCoreBatch ==
    /\ cfg = Config(U2NET, TRUE, DefaultFallbackChain, BatchSizeDefault, 2, TRUE)
    /\ instances = [T \in ModelType |-> 0]
    /\ health = [T \in ModelType |-> NoHealth]
    /\ ran = ZeroRan
    /\ metrics = ZeroMetrics
    /\ task = NoTasks
    /\ call = CoreIdle
    /\ last = NoLast
    /\ made = [T \in ModelType |-> 0]

SpecCoreBatch == InitCoreBatch /\ [][NextCoreBatch]_vars

SpecFactory == InitFactory /\ [][NextFactory]_vars

\* the configuration of the pipeline's factory in the specification of two
\* factories
SharedConfigs ==
    { Config(U2NET, TRUE, DefaultFallbackChain, BatchSizeDefault, 2, TRUE) }

NextShared ==
    \/ \E F \in Factories, T \in ModelType : \E ok \in OraclesOf({T}) : GetModelOn(F, T, ok)
    \/ \E F \in Factories : \E ok \in OraclesOf({ConfigOf(F).default_model}) :
          GetDefaultModelOn(F, ok)
    \/ \E F \in Factories, T \in ModelType : CheckHealthOn(F, T)
    \/ \E F \in Factories, which \in OptionalModelType : ClearCacheOn(F, which)
    \/ Tick(HealthTTL)

InitShared == InitWith(SharedConfigs)

SpecShared == InitShared /\ [][NextShared]_vars

(***************************************************************************)
(* Properties of a single request (SpecProcess).                           *)
(***************************************************************************)
Done(t) == task[t].pc = "done"

\* every attempt the request made against the backend it started with failed,
\* and the retry loop gave up on it
Exhausted(t) ==
    /\ Done(t)
    /\ task[t].model # NoModel
    /\ task[t].failures[task[t].model.type] = task[t].invoked[task[t].model.type]

\* the backends of fallback_chain a request could go on to after backend T
FallbackCandidates(T) ==
    { cfg.fallback_chain[k] : k \in 1..Len(cfg.fallback_chain) } \cap (ModelType \ {T})

\* C1: when all max_retries+1 attempts against the starting backend have failed
\* and use_fallback and fallback_enabled are both true, the request attempts the
\* next backend of fallback_chain instead of ending as Failed.
C1_FallbackOnExhaustion ==
    \A t \in Slots :
        (/\ Exhausted(t)
         /\ call.use_fallback /\ cfg.fallback_enabled
         /\ FallbackCandidates(task[t].model.type) # {})
        => \E T \in FallbackCandidates(task[t].model.type) : task[t].invoked[T] > 0

\* C2: default backend A = rmbg-2.0-local, fallback enabled, chain [A, B, Baseline]:
\* if every attempt against A and against B fails and none against Baseline does,
\* process(image) with no requested type returns Success with model_used = Baseline.
C2_FallbackReachesBaseline ==
    (/\ call.kind = "process" /\ Done(1)
     /\ call.model_type = NONE /\ call.use_fallback
     /\ cfg.default_model = RMBG2_LOCAL /\ cfg.fallback_enabled
     /\ cfg.fallback_chain = <<RMBG2_LOCAL, RMBG2_API, U2NET>>
     /\ task[1].invoked[RMBG2_LOCAL] > 0
     /\ task[1].failures[RMBG2_LOCAL] = task[1].invoked[RMBG2_LOCAL]
     /\ task[1].failures[RMBG2_API] = task[1].invoked[RMBG2_API]
     /\ task[1].failures[U2NET] = 0)
    => /\ task[1].outcome.status = SUCCESS
       /\ task[1].outcome.model_used = U2NET

\* the message names backend T: it quotes an error raised by T's adapter
Mentions(e, T) == e.src = T

\* C3: with fallback enabled and every backend failing, process returns a Failed
\* result whose error message references all three backends.
C3_ErrorNamesAllBackends ==
    (/\ call.kind = "process" /\ Exhausted(1)
     /\ call.use_fallback /\ cfg.fallback_enabled
     /\ \A T \in ModelType : task[1].failures[T] = task[1].invoked[T])
    => /\ task[1].outcome.status = FAILED
       /\ \A T \in ModelType : Mentions(task[1].outcome.error, T)

\* the calls of remove_background a request has made
Invocations(t) ==
    task[t].invoked[U2NET] + task[t].invoked[RMBG2_LOCAL] + task[t].invoked[RMBG2_API]

Failures(t) ==
    task[t].failures[U2NET] + task[t].failures[RMBG2_LOCAL] + task[t].failures[RMBG2_API]

\* C4: for every max_retries = m in 0..5 the retry loop calls a backend whose
\* every call fails exactly m+1 times before giving up, never more; a success on
\* attempt k ends the loop after exactly k calls (the k-1 failed ones and it).
C4_RetryBound ==
    \A t \in Slots :
        /\ Invocations(t) <= cfg.max_retries + 1
        /\ task[t].pc = "calling" => Invocations(t) = Failures(t) + 1
        /\ task[t].pc = "sleeping" => Invocations(t) = Failures(t)
        /\ (Done(t) /\ task[t].outcome.error.kind = "All retries failed")
              => /\ Invocations(t) = cfg.max_retries + 1
                 /\ Failures(t) = cfg.max_retries + 1
        /\ (Done(t) /\ task[t].outcome.status = SUCCESS)
              => Invocations(t) = Failures(t) + 1

\* a backend failed all six attempts of max_retries = 5
C4_Witness ==
    /\ cfg.max_retries = MaxRetriesLe
    /\ Done(1)
    /\ task[1].outcome.error.kind = "All retries failed"
    /\ Invocations(1) = MaxRetriesLe + 1

(***************************************************************************)
(* Properties of process_batch (SpecBatch).                                *)
(***************************************************************************)
InBatch == call.kind \in {"batch", "returned"}

Returned == call.kind = "returned"

\* the backend type a request starts with
StartType == IF call.model_type # NONE THEN call.model_type ELSE cfg.default_model

Started(t) == task[t].pc \in {"calling", "sleeping", "done"}

\* what get_model(StartType) gave the request in slot t: an instance, or None
Got(t) == IF task[t].model.type = StartType THEN task[t].model ELSE NoModel

\* C5: when the requests of a chunk ask for get_model(T) while no instance of T
\* is cached, T's constructor runs exactly once and every request receives the
\* same instance, or the same failure.
C5_SingleFlight ==
    (call.kind = "batch" /\ call.i = 0)
    => /\ \A T \in ModelType : ran[T] <= 1
       /\ \A t, u \in Slots : (Started(t) /\ Started(u)) => Got(t) = Got(u)

\* C7: results[i] is the outcome of images[i], whatever the order in which the
\* requests finish, across and within chunks.
C7_InputOrder ==
    InBatch =>
        /\ \A k \in 1..Len(call.results) : call.results[k].of = k
        /\ Returned => Len(call.results) = call.n

\* a batch of several chunks has returned, and in it a request finished before
\* the request of an earlier image
C7_Witness ==
    /\ Returned
    /\ call.overtaken
    /\ call.n > cfg.batch_size

\* C8: a failure while processing one image, an exception raised inside process
\* included, gives a Failed result in that image's slot; the other images get
\* their own outcomes and process_batch does not raise.
C8_Isolation ==
    /\ call.kind # "raised"
    /\ InBatch =>
          \A k \in 1..Len(call.results) :
              /\ call.results[k].kind = "result"
              /\ call.results[k].status \in {SUCCESS, FAILED}
              /\ call.results[k].error = InternalFault => call.results[k].status = FAILED
              /\ call.results[k].of = k
    /\ Returned => Len(call.results) = call.n

\* image 1 hit an exception inside process, image 2 of the same chunk succeeded
C8_Witness ==
    /\ Returned
    /\ cfg.batch_size >= 2
    /\ call.n >= 2
    /\ call.results[1].error = InternalFault
    /\ call.results[2].status = SUCCESS

\* C9: for N images the result has total = N, N entries, successful = the number
\* of Success entries and failed = N - successful.
C9_BatchCounts ==
    Returned =>
        /\ call.total = call.n
        /\ Len(call.results) = call.n
        /\ call.successful =
              Cardinality({k \in 1..Len(call.results) : call.results[k].status = SUCCESS})
        /\ call.failed = call.n - call.successful

\* a returned batch with a Success and a Failed entry
C9_Witness ==
    /\ Returned
    /\ call.successful >= 1
    /\ call.failed >= 1

InFlight == {t \in Slots : task[t].pc \in {"created", "calling", "sleeping"}}

\* C10: at most batch_size process calls are in flight, and no image of a later
\* chunk is started before every image of the chunks before it has its outcome.
C10_BoundedConcurrency ==
    call.kind = "batch" =>
        /\ Cardinality(InFlight) <= cfg.batch_size
        /\ \A t \in Slots : task[t].pc # "none" =>
              /\ call.i < t /\ t <= call.i + cfg.batch_size
              /\ Len(call.results) = call.i

\* the first chunk of a batch of several chunks, all its requests running
C10_Witness ==
    /\ call.kind = "batch"
    /\ cfg.batch_size >= 2
    /\ call.n > cfg.batch_size
    /\ Cardinality({t \in Slots : task[t].pc = "calling"}) = cfg.batch_size

(***************************************************************************)
(* Properties of the registry (SpecFactory).                               *)
(***************************************************************************)
\* C6: get_model(T) with an instance of T cached (an earlier get_model(T)
\* succeeded; no construction failure and no clear_cache since) returns that
\* instance without running the constructor, also when the health record is
\* older than the TTL; and only clear_cache takes an instance out of the cache.
C6_IdempotentCaching ==
    [][ /\ (last'.op = "get_model" /\ last'.before # 0)
            => /\ last'.model = Adapter(last'.arg, last'.before)
               /\ ran'[last'.arg] = 0
               /\ instances'[last'.arg] = last'.before
        /\ \A T \in ModelType :
              (instances[T] # 0 /\ instances'[T] # instances[T])
                 => (last'.op = "clear_cache" /\ last'.arg \in {T, NONE}) ]_vars

\* get_model answered from the cache although the health record had expired
C6_Witness ==
    /\ last.op = "get_model"
    /\ last.before # 0
    /\ last.stale
    /\ last.model = Adapter(last.arg, last.before)

(***************************************************************************)
(* Timeouts and the fallback pass of a single request (SpecProcess).       *)
(***************************************************************************)
\* C11: an attempt that runs past config.timeout is counted as one failed
\* attempt, like an adapter error: the request is not aborted and the retries
\* that remain are made (so a request whose last attempt ran past the timeout
\* ends Failed, after all max_retries+1 attempts failed).
C11_TimeoutIsFailedAttempt ==
    \A t \in Slots :
        (Done(t) /\ task[t].late)
        => /\ task[t].outcome.status = FAILED
           /\ Failures(t) = Invocations(t)
           /\ Invocations(t) = cfg.max_retries + 1

\* C12: one pass through the fallback chain: within a request no backend type
\* is constructed a second time, and a backend is invoked only if it is the one
\* the request obtained.
C12_SinglePass ==
    call.kind = "process" =>
        \A T \in ModelType :
            /\ ran[T] <= 1
            /\ task[1].invoked[T] > 0 => task[1].model.type = T

\* C16: with use_fallback false, or fallback_enabled false, no backend other
\* than the starting one (requested type, else default) is constructed or
\* invoked for the request.
C16_NoFallbackWhenOff ==
    (call.kind = "process" /\ (~call.use_fallback \/ ~cfg.fallback_enabled))
    => \A T \in ModelType \ {StartType} :
           ran[T] = 0 /\ task[1].invoked[T] = 0

\* use_fallback = False with fallback enabled in the configuration: the starting
\* backend could not be constructed and the request ended without a model
C16_Witness ==
    /\ call.kind = "process"
    /\ ~call.use_fallback
    /\ cfg.fallback_enabled
    /\ Done(1)
    /\ task[1].outcome.error = NoAvailableModels
    /\ StartType \in ModelType
    /\ ran[StartType] = 1

(***************************************************************************)
(* Health records, construction failures, the fallback walk and            *)
(* clear_cache (SpecFactory).                                              *)
(***************************************************************************)
\* C13: check_health never returns a record that is HealthTTL minutes old or
\* older: when the stored record is that old, the record returned is a new one
\* made from the instance cache as it is (Healthy for a cached instance,
\* Unknown for none).
C13_HealthTTL ==
    last.op = "check_health" =>
        /\ IsRecent(last.health)
        /\ last.stale =>
              /\ last.health.age = 0
              /\ last.health.status = IF last.before # 0 THEN HEALTHY ELSE UNKNOWN

\* check_health found a record past its TTL for a cached instance
C13_Witness ==
    /\ last.op = "check_health"
    /\ last.stale
    /\ last.before # 0
    /\ last.health.status = HEALTHY
    /\ last.health.age = 0

\* C14: get_model(T) returns the cached instance only when one is cached and
\* its health is Healthy; a call that does not return the cached instance has
\* run the constructor; when the construction fails get_model returns None,
\* the health of T is Unhealthy with the failure message and no instance of T
\* is cached.
C14_GetModelOutcomes ==
    last.op = "get_model" =>
        /\ (last.model # NoModel /\ ran[last.arg] = 0)
              => /\ last.before # 0
                 /\ last.model = Adapter(last.arg, last.before)
                 /\ is_healthy(health[last.arg])
        /\ (last.before = 0 \/ last.model # Adapter(last.arg, last.before))
              => ran[last.arg] = 1
        /\ last.model # NoModel => instances[last.arg] = last.model.id
        /\ last.model = NoModel
              => /\ instances[last.arg] = 0
                 /\ health[last.arg].status = UNHEALTHY
                 /\ health[last.arg].message = "constructor raised"

\* a construction failed
C14_Witness ==
    /\ last.op = "get_model"
    /\ last.model = NoModel
    /\ ran[last.arg] = 1
    /\ health[last.arg].status = UNHEALTHY

\* entry k of the chain is one get_fallback_model(exclude) tries
Eligible(k, exclude) ==
    IsModelType(cfg.fallback_chain[k]) /\ cfg.fallback_chain[k] # exclude

\* C15: get_fallback_model(exclude) returns None and constructs nothing when
\* fallback_enabled is false; otherwise it returns the instance of the first
\* entry of fallback_chain that is a backend name, is not exclude and for which
\* get_model succeeds (the eligible entries before it were tried and failed),
\* constructs no entry after it, and returns None when no entry qualifies.
C15_FallbackWalk ==
    [][ last'.op = "get_fallback_model" =>
          LET chain == cfg.fallback_chain
              ret == last'.model
              ex == last'.arg
          IN IF ~cfg.fallback_enabled
             THEN ret = NoModel /\ ran' = ZeroRan /\ instances' = instances
             ELSE IF ret # NoModel
             THEN \E k \in 1..Len(chain) :
                     /\ chain[k] = ret.type
                     /\ Eligible(k, ex)
                     /\ instances'[ret.type] = ret.id
                     /\ \A j \in 1..(k - 1) : Eligible(j, ex)
                            => ran'[chain[j]] = 1 /\ instances'[chain[j]] = 0
                     /\ \A j \in (k + 1)..Len(chain) : IsModelType(chain[j])
                            => /\ ran'[chain[j]] = 0
                               /\ instances'[chain[j]] = instances[chain[j]]
                     /\ ex # NONE => ran'[ex] = 0
             ELSE \A j \in 1..Len(chain) : Eligible(j, ex)
                     => ran'[chain[j]] = 1 /\ instances'[chain[j]] = 0 ]_vars

\* rmbg-2.0-local excluded, rmbg-2.0-api failed to construct, u2net returned
C15_Witness ==
    /\ last.op = "get_fallback_model"
    /\ cfg.fallback_chain = DefaultFallbackChain
    /\ last.arg = RMBG2_LOCAL
    /\ last.model.type = U2NET
    /\ ran[RMBG2_API] = 1
    /\ ran[RMBG2_LOCAL] = 0

\* the registry right after the step, seen by the next call
RegAfter ==
    [instances |-> instances', health |-> health', ran |-> ZeroRan,
     fresh |-> [T \in ModelType |-> 1]]

\* C17: clear_cache(T) removes the instance and the health record of T and
\* leaves those of every other type as they were; clear_cache() removes them
\* for all types; afterwards check_health of a cleared type is Unknown and the
\* next get_model of it runs the constructor.
C17_ClearCache ==
    [][ (last'.op = "clear_cache" /\ last' # last) =>
          \A T \in ModelType :
              IF last'.arg \in {T, NONE}
              THEN /\ instances'[T] = 0
                   /\ health'[T] = NoHealth
                   /\ check_health(RegAfter, T).ret.status = UNKNOWN
                   /\ \A ok \in Oracles : get_model(RegAfter, T, ok).reg.ran[T] = 1
              ELSE /\ instances'[T] = instances[T]
                   /\ health'[T] = health[T] ]_vars

\* clear_cache(u2net) removed a cached u2net instance and left a cached
\* rmbg-2.0-api instance in place
C17_Witness ==
    /\ last.op = "clear_cache"
    /\ last.arg = U2NET
    /\ last.before # 0
    /\ instances[U2NET] = 0
    /\ health[U2NET] = NoHealth
    /\ instances[RMBG2_API] # 0

(***************************************************************************)
(* Metrics and result records under concurrent requests (SpecBatch).       *)
(***************************************************************************)
\* the step returns a ProcessingResult from the process call of slot t
Recorded(t) ==
    /\ task[t].pc \in {"created", "calling", "sleeping"}
    /\ task'[t].pc = "done"
    /\ task'[t].outcome.kind = "result"

\* C18: no metrics update is lost under any interleaving of the process calls
\* of a batch: every step that returns a result adds exactly one to
\* total_processed and to one of total_successful / total_failed, no other step
\* changes the counters, and total_processed = total_successful + total_failed.
C18_MetricsSafe ==
    [][ cfg.collect_metrics =>
          /\ metrics'.total_processed = metrics'.total_successful + metrics'.total_failed
          /\ metrics'.total_processed =
                metrics.total_processed + Cardinality({t \in Slots : Recorded(t)})
          /\ metrics'.total_successful =
                metrics.total_successful
                + Cardinality({t \in Slots : Recorded(t) /\ success(task'[t].outcome)}) ]_vars

\* two outcomes are recorded while another request of the same chunk, started
\* before one of them, is still between two attempts
C18_Witness ==
    /\ call.kind = "batch"
    /\ call.overtaken
    /\ \E t \in Slots : task[t].pc = "sleeping"
    /\ metrics.total_processed >= 2
    /\ metrics.total_successful >= 1
    /\ metrics.total_failed >= 1

\* the fields of a returned ProcessingResult
WellFormed(r) ==
    /\ r.kind = "result"
    /\ r.status \in {SUCCESS, FAILED}
    /\ r.image # 0 <=> r.status = SUCCESS
    /\ r.model_used # NONE <=> r.status = SUCCESS
    /\ r.error # NoError <=> r.status = FAILED

\* C20: every ProcessingResult process returns, and every entry of the results
\* of process_batch, has status Success or Failed, an image and model_used if
\* and only if it is Success, an error message if and only if it is Failed.
C20_ResultShape ==
    /\ \A t \in Slots :
          (Done(t) /\ task[t].outcome.kind = "result") => WellFormed(task[t].outcome)
    /\ \A k \in 1..Len(call.results) : WellFormed(call.results[k])

\* a returned batch with a Success entry, a Failed entry made by process and a
\* Failed entry made from an exception
C20_Witness ==
    /\ Returned
    /\ \E k \in 1..Len(call.results) : call.results[k].status = SUCCESS
    /\ \E k \in 1..Len(call.results) :
          call.results[k].error.kind \in {"All retries failed", "No available models"}
    /\ \E k \in 1..Len(call.results) : call.results[k].error = InternalFault

C22_NeverTriedVsFailed ==
    (last.op = "check_health" /\ last.before = 0) =>
        /\ health[last.arg].status = "absent" => last.health.status = UNKNOWN
        /\ health[last.arg].status = UNHEALTHY => last.health.status = UNHEALTHY

\* C26: whenever an instance is cached for a type, the stored health record of
\* the type exists and is Healthy; so a stored Unhealthy record goes with no
\* cached instance.
C26_CachedIsHealthy ==
    \A T \in ModelType :
        /\ instances[T] # 0 => health[T].status = HEALTHY
        /\ health[T].status = UNHEALTHY => instances[T] = 0

\* an instance cached with a record past its TTL, next to a type whose
\* construction failed
C26_Witness ==
    \E T, U \in ModelType :
        /\ instances[T] # 0
        /\ ~IsRecent(health[T])
        /\ health[U].status = UNHEALTHY
        /\ instances[U] = 0

(***************************************************************************)
(* The backend a request starts with (SpecProcess).                        *)
(***************************************************************************)
\* the request was started: process is past its first lines
Resolved(t) == task[t].pc \in {"calling", "sleeping", "done"}

\* the eligible entries of the chain before entry k were constructed and failed
TriedBefore(k, exclude) ==
    \A j \in 1..(k - 1) : Eligible(j, exclude)
        => ran[cfg.fallback_chain[j]] >= 1 /\ instances[cfg.fallback_chain[j]] = 0

\* C28: process without a requested type under a default_model that names no
\* backend returns a Failed result without consulting the fallback chain
\* (nothing is constructed, nothing invoked), also with use_fallback and
\* fallback_enabled both true.
C28_UnknownDefaultFails ==
    (/\ call.kind = "process" /\ Resolved(1)
     /\ call.model_type = NONE /\ ~IsModelType(cfg.default_model))
    => /\ Done(1)
       /\ task[1].outcome.kind = "result"
       /\ task[1].outcome.status = FAILED
       /\ task[1].outcome.error \in {NotAValidModelType, PreprocessError}
       /\ ran = ZeroRan
       /\ Invocations(1) = 0

\* such a call with fallback on and a chain of three backends
C28_Witness ==
    /\ call.kind = "process" /\ Done(1)
    /\ call.model_type = NONE /\ cfg.default_model = BOGUS
    /\ call.use_fallback /\ cfg.fallback_enabled
    /\ cfg.fallback_chain = DefaultFallbackChain
    /\ task[1].outcome.status = FAILED

\* C25: when the starting backend cannot be constructed and use_fallback and
\* fallback_enabled are both true, process takes the backend of
\* get_fallback_model(exclude = starting type): the first eligible entry of the
\* chain that can be constructed; it runs the retry loop against it and a
\* Success reports model_used = the type of that backend; when no entry can be
\* constructed the result is Failed.
C25_FallbackOnConstructionFailure ==
    (/\ call.kind = "process" /\ Resolved(1)
     /\ call.use_fallback /\ cfg.fallback_enabled
     /\ StartType \in ModelType
     /\ ran[StartType] >= 1 /\ instances[StartType] = 0)
    => IF task[1].model # NoModel
       THEN /\ task[1].model.type # StartType
            /\ instances[task[1].model.type] = task[1].model.id
            /\ \E k \in 1..Len(cfg.fallback_chain) :
                   /\ cfg.fallback_chain[k] = task[1].model.type
                   /\ TriedBefore(k, StartType)
            /\ ran[StartType] = 1
            /\ \A T \in ModelType : task[1].invoked[T] > 0 => T = task[1].model.type
            /\ (Done(1) /\ task[1].outcome.status = FAILED)
                  => \/ Failures(1) = cfg.max_retries + 1
                     \/ task[1].outcome.error = PostprocessError
            /\ (Done(1) /\ task[1].outcome.status = SUCCESS)
                  => task[1].outcome.model_used = task[1].model.type
       ELSE /\ Done(1)
            /\ task[1].outcome.status = FAILED
            /\ task[1].outcome.error = NoAvailableModels
            /\ TriedBefore(Len(cfg.fallback_chain) + 1, StartType)

\* rmbg-2.0-local requested and not constructible; rmbg-2.0-api, the next entry
\* of the chain, produced the image on its second attempt
C25_Witness ==
    /\ call.kind = "process" /\ Done(1)
    /\ call.model_type = RMBG2_LOCAL
    /\ ran[RMBG2_LOCAL] = 1 /\ instances[RMBG2_LOCAL] = 0
    /\ task[1].outcome.status = SUCCESS
    /\ task[1].outcome.model_used = RMBG2_API
    /\ task[1].failures[RMBG2_API] = 1

\* C29: the outcome of an attempt (error, timeout, the last of the retries)
\* leaves the instance cache and the health records as they are: a backend
\* whose every call failed is still cached with a Healthy record, and the next
\* request for its type (once past preprocessing) is handed that instance
\* without a construction.
C29_FailuresLeaveRegistry ==
    [][ /\ (task[1].pc = "calling" /\ task'[1].pc \in {"sleeping", "done"})
              => instances' = instances /\ health' = health
        /\ (task'[1].pc = "done" /\ task'[1].model # NoModel
                /\ task'[1].outcome.status = FAILED)
              => /\ instances'[task'[1].model.type] = task'[1].model.id
                 /\ health'[task'[1].model.type].status = HEALTHY
        /\ (/\ task[1].pc = "created" /\ task'[1].pc # "created"
             /\ task'[1].outcome.error # PreprocessError
             /\ StartType \in ModelType
             /\ instances[StartType] # 0)
              => /\ task'[1].model = Adapter(StartType, instances[StartType])
                 /\ ran' = ZeroRan
                 /\ instances' = instances ]_vars

\* every request so far has failed, and the request now running was handed
\* the instance one of them left in the cache
C29_Witness ==
    /\ call.kind = "process"
    /\ task[1].pc = "calling"
    /\ cfg.collect_metrics
    /\ metrics.total_failed >= 1
    /\ metrics.total_successful = 0
    /\ ran = ZeroRan
    /\ instances[task[1].model.type] = task[1].model.id

(***************************************************************************)
(* Derived figures of a batch result and of the metrics (SpecBatch).       *)
(***************************************************************************)
\* C24: process_batch over zero images returns total = successful = failed = 0,
\* no results, average_time = 0 and success_rate = 0, without a division error;
\* get_metrics gives success_rate = 0 and average_time = 0 while
\* total_processed = 0; no returned batch and no metrics snapshot divides by 0.
C24_ZeroDivisionGuard ==
    /\ (Returned /\ call.n = 0)
          => /\ call.total = 0 /\ call.successful = 0 /\ call.failed = 0
             /\ call.results = <<>>
             /\ IsZero(average_time(call))
             /\ IsZero(success_rate(call))
    /\ Returned
          => /\ ~IsError(success_rate(call))
             /\ ~IsError(average_time(call))
    /\ metrics.total_processed = 0
          => /\ IsZero(get_metrics(metrics).success_rate)
             /\ IsZero(get_metrics(metrics).average_time)
    /\ ~IsError(get_metrics(metrics).success_rate)
    /\ ~IsError(get_metrics(metrics).average_time)

\* process_batch([]) has returned on a pipeline that has recorded nothing
C24_Witness ==
    /\ Returned
    /\ call.n = 0
    /\ metrics.total_processed = 0

(***************************************************************************)
(* batch_remove_background of the three services (SpecCoreBatch).          *)
(***************************************************************************)
\* C23: batch_remove_background(images) returns len(images) results in input
\* order; an item whose removal raises does not stop the items after it, and
\* its slot holds the input image itself; the call does not raise.
C23_CoreBatchDegrades ==
    /\ call.kind \in {"idle", "batch_remove_background", "core_returned"}
    /\ call.kind = "batch_remove_background" => Len(call.results) = call.idx
    /\ call.kind = "core_returned" =>
          /\ Len(call.results) = Len(call.images)
          /\ \A k \in 1..Len(call.images) :
                call.results[k] = IF call.failed[k] THEN call.images[k]
                                  ELSE Removed(call.images[k])

\* three images, the removal of the second raised, the third was processed
C23_Witness ==
    /\ call.kind = "core_returned"
    /\ Len(call.images) = 3
    /\ call.failed = <<FALSE, TRUE, FALSE>>
    /\ call.results[2] = call.images[2]
    /\ call.results[3] = Removed(call.images[3])

(***************************************************************************)
(* Termination of a request (SpecProcessLive).                             *)
(***************************************************************************)
\* process has returned a ProcessingResult with a terminal status
Terminal(t) ==
    /\ Done(t)
    /\ task[t].outcome.kind = "result"
    /\ task[t].outcome.status \in {SUCCESS, FAILED}

\* C21: every process call eventually returns a Success or Failed result (it
\* does not raise), given that each backend call returns, raises or times out;
\* it calls each backend it tries at most max_retries+1 times.
C21_Terminates ==
    /\ [](\A T \in ModelType : task[1].invoked[T] <= cfg.max_retries + 1)
    /\ [](Done(1) => Terminal(1))
    /\ (task[1].pc = "created") ~> Terminal(1)

\* a request that used all three attempts of max_retries = 2 and ended Failed
C21_Witness ==
    /\ call.kind = "process"
    /\ Terminal(1)
    /\ cfg.max_retries = MaxRetriesGe + 2
    /\ task[1].outcome.status = FAILED
    /\ Failures(1) = cfg.max_retries + 1

(***************************************************************************)
(* One outcome per request in the metrics (SpecProcess).                   *)
(***************************************************************************)
\* the step returns from the process call
Returns(t) == task[t].pc # "done" /\ task'[t].pc = "done"

\* C27: with collect_metrics true a process call records exactly one outcome:
\* the step that returns its result adds one to total_processed and one to
\* total_successful for a Success, to total_failed for a Failed result, and no
\* other step of the call changes the counters, whatever enable_preprocessing
\* and enable_postprocessing are and whatever the backend returned or raised;
\* with collect_metrics false the counters do not change.
C27_OneOutcomePerCall ==
    [][ IF cfg.collect_metrics
        THEN IF Returns(1)
             THEN /\ metrics'.total_processed = metrics.total_processed + 1
                  /\ metrics'.total_successful =
                        metrics.total_successful
                        + (IF success(task'[1].outcome) THEN 1 ELSE 0)
                  /\ metrics'.total_failed =
                        metrics.total_failed
                        + (IF success(task'[1].outcome) THEN 0 ELSE 1)
             ELSE metrics' = metrics
        ELSE metrics' = metrics ]_vars

\* without pre- and postprocessing: a Success and a Failed call, one outcome each
C27_Witness ==
    /\ call.kind = "process" /\ Done(1)
    /\ cfg.collect_metrics
    /\ ~cfg.enable_preprocessing /\ ~cfg.enable_postprocessing
    /\ task[1].outcome.status = SUCCESS
    /\ metrics.total_processed = 2
    /\ metrics.total_successful = 1
    /\ metrics.total_failed = 1

(***************************************************************************)
(* One registry for every factory (SpecShared).                            *)
(***************************************************************************)
\* C30: the instance cache and the health records are the same for every
\* ModelFactory: each factory reads the same entries; get_model(T) on any
\* factory, while an instance of T is cached, returns that instance without a
\* construction and leaves it as built, whichever factory built it and
\* whatever the two configurations are; after clear_cache on any factory the
\* evicted types have no instance and no health record for any factory, and
\* the next get_model of such a type constructs.
C30_SharedRegistry ==
    /\ \A F \in Factories, T \in ModelType :
          /\ RegistryOf(F).instances[T] = instances[T]
          /\ RegistryOf(F).health[T] = health[T]
    /\ (last.op = "get_model" /\ last.before # 0)
          => /\ last.model = Adapter(last.arg, last.before)
             /\ instances[last.arg] = last.before
             /\ made[last.arg] # 0
             /\ ran = ZeroRan
    /\ (last.op = "get_model" /\ last.before = 0) => ran[last.arg] = 1
    /\ (last.op = "clear_cache")
          => \A F \in Factories, T \in ModelType :
                (last.arg = NONE \/ last.arg = T)
                   => /\ RegistryOf(F).instances[T] = 0
                      /\ RegistryOf(F).health[T] = NoHealth

\* factory 2, whose configuration is another, is handed the instance that
\* factory 1 built
C30_Witness ==
    /\ last.op = "get_model"
    /\ last.factory = 2
    /\ last.before # 0
    /\ made[last.arg] = 1
    /\ ConfigOf(2) # ConfigOf(1)
    /\ last.model = Adapter(last.arg, last.before)
    /\ ran = ZeroRan

====
